---- MODULE Spec2Model ----
(***************************************************************************)
(* A model of address_book.py: the field validators (Phone, Birthday),     *)
(* Record, AddressBook with get_upcoming_birthdays, the pickle persistence *)
(* (save_data / load_data) and the command handlers behind input_error.    *)
(*                                                                         *)
(* A Python str is a sequence of one-character strings; the character      *)
(* "u0663" stands for the one code point U+0663 (ARABIC-INDIC DIGIT THREE),*)
(* a decimal digit that is not ASCII.                                      *)
(***************************************************************************)
EXTENDS Integers, Sequences, FiniteSets, TLC

VARIABLES
    book,   \* AddressBook.data: the entries in insertion order
    rec,    \* a Record held by a caller outside any book
    file,   \* the file addressbook.pkl
    today,  \* datetime.now().date()
    saved,  \* [book: the book of the last save_data that returned] (None: none yet)
    pre,    \* the state the last call started from
    last    \* the last call: its name, arguments and outcome

vars == <<book, rec, file, today, saved, pre, last>>

(***************************************************************************)
(* Python values                                                           *)
(***************************************************************************)
None == [isNone |-> TRUE]

\* class Field: an object with one attribute, value
Field(value) == [value |-> value]

\* class Name(Field): no validation
Name(value) == Field(value)

\* the outcome of a call: a returned value, or a raised exception
Return(v) == [raised |-> FALSE, ret |-> v]
Raise(exc, msg) == [raised |-> TRUE, exc |-> exc, msg |-> msg]

AsciiDigits == {"0", "1", "2", "3", "4", "5", "6", "7", "8", "9"}

\* what \d matches in a str pattern: every Unicode decimal digit
UnicodeDigits == AsciiDigits \cup {"u0663"}

\* [1-9]
NonZero == AsciiDigits \ {"0"}

DigitVal ==
    [c \in UnicodeDigits |->
        CASE c = "0" -> 0 [] c = "1" -> 1 [] c = "2" -> 2 [] c = "3" -> 3
          [] c = "4" -> 4 [] c = "5" -> 5 [] c = "6" -> 6 [] c = "7" -> 7
          [] c = "8" -> 8 [] c = "9" -> 9 [] c = "u0663" -> 3]

DigitChar ==
    [n \in 0..9 |->
        CASE n = 0 -> "0" [] n = 1 -> "1" [] n = 2 -> "2" [] n = 3 -> "3"
          [] n = 4 -> "4" [] n = 5 -> "5" [] n = 6 -> "6" [] n = 7 -> "7"
          [] n = 8 -> "8" [] n = 9 -> "9"]

\* int(s) on a string of digits, leading blanks skipped
RECURSIVE int(_)
int(s) ==
    IF s = <<>> THEN 0
    ELSE IF Head(s) = " " THEN int(Tail(s))
    ELSE int(SubSeq(s, 1, Len(s) - 1)) * 10 + DigitVal[s[Len(s)]]

(***************************************************************************)
(* Regular expressions: a pattern piece applied at position p gives the    *)
(* set of positions at which a match of it may end (0 or {}: no match).    *)
(***************************************************************************)
In(s, p, S) == p <= Len(s) /\ s[p] \in S

Alt1(s, p, S) == IF In(s, p, S) THEN {p + 1} ELSE {}

Alt2(s, p, S1, S2) == IF In(s, p, S1) /\ In(s, p + 1, S2) THEN {p + 2} ELSE {}

\* \d{n} at p: the position after it, or 0
MatchDigits(s, p, n) ==
    IF p + n - 1 <= Len(s) /\ \A i \in p..(p + n - 1) : s[i] \in UnicodeDigits
    THEN p + n
    ELSE 0

\* `$` without re.MULTILINE: at the end, or just before a newline that ends the string
AtDollar(s, p) == p = Len(s) + 1 \/ (p = Len(s) /\ s[p] = "\n")

(***************************************************************************)
(* class Phone                                                             *)
(***************************************************************************)
PhoneLen == 10

Phone_validate(value) ==
    LET p == MatchDigits(value, 1, PhoneLen)
    IN  p # 0 /\ AtDollar(value, p)

Phone(value) ==
    IF ~Phone_validate(value)
    THEN Raise("ValueError", "Phone number must be a string of 10 digits.")
    ELSE Return(Field(value))

(***************************************************************************)
(* datetime.date                                                           *)
(***************************************************************************)
MINYEAR == 1

DaysInMonthTable == <<31, 28, 31, 30, 31, 30, 31, 31, 30, 31, 30, 31>>

IsLeap(y) == y % 4 = 0 /\ (y % 100 # 0 \/ y % 400 = 0)

DaysInMonth(y, m) == IF m = 2 /\ IsLeap(y) THEN 29 ELSE DaysInMonthTable[m]

DaysBeforeYear(y) ==
    LET k == y - 1 IN k * 365 + (k \div 4) - (k \div 100) + (k \div 400)

RECURSIVE DaysBeforeMonth(_, _)
DaysBeforeMonth(y, m) ==
    IF m = 1 THEN 0 ELSE DaysBeforeMonth(y, m - 1) + DaysInMonth(y, m - 1)

\* date(year, month, day): ValueError unless the date exists
date(y, m, d) ==
    IF y < MINYEAR THEN Raise("ValueError", "year is out of range")
    ELSE IF m < 1 \/ m > 12 THEN Raise("ValueError", "month must be in 1..12")
    ELSE IF d < 1 \/ d > DaysInMonth(y, m)
    THEN Raise("ValueError", "day is out of range for month")
    ELSE Return([year |-> y, month |-> m, day |-> d])

toordinal(d) == DaysBeforeYear(d.year) + DaysBeforeMonth(d.year, d.month) + d.day

fromordinal(n) ==
    LET y == CHOOSE yy \in (n \div 366)..((n \div 365) + 1) :
                 DaysBeforeYear(yy) < n /\ n <= DaysBeforeYear(yy + 1)
        m == CHOOSE mm \in 1..12 :
                 /\ DaysBeforeYear(y) + DaysBeforeMonth(y, mm) < n
                 /\ n <= DaysBeforeYear(y) + DaysBeforeMonth(y, mm) + DaysInMonth(y, mm)
    IN  [year |-> y, month |-> m, day |-> n - DaysBeforeYear(y) - DaysBeforeMonth(y, m)]

\* Monday is 0, Sunday is 6
weekday(d) == (toordinal(d) + 6) % 7

\* d + timedelta(days=k)
PlusDays(d, k) == fromordinal(toordinal(d) + k)

\* d.replace(year=y)
replace_year(d, y) == date(y, d.month, d.day)

Pad2(n) == <<DigitChar[(n \div 10) % 10], DigitChar[n % 10]>>

\* d.strftime("%d.%m.%Y"), for a year of four digits
strftime(d) ==
    Pad2(d.day) \o <<".">> \o Pad2(d.month) \o <<".">>
        \o Pad2(d.year \div 100) \o Pad2(d.year % 100)

(***************************************************************************)
(* datetime.strptime(value, "%d.%m.%Y"): the format becomes the pattern    *)
(*   (?P<d>3[0-1]|[1-2]\d|0[1-9]|[1-9]| [1-9])\.                          *)
(*   (?P<m>1[0-2]|0[1-9]|[1-9])\.(?P<Y>\d\d\d\d)                          *)
(* matched at the start of the string; what the match leaves unread is an  *)
(* error, and so is a day the month does not have.                         *)
(***************************************************************************)
re_d(s, p) ==
    Alt2(s, p, {"3"}, {"0", "1"}) \cup Alt2(s, p, {"1", "2"}, UnicodeDigits)
        \cup Alt2(s, p, {"0"}, NonZero) \cup Alt1(s, p, NonZero)
        \cup Alt2(s, p, {" "}, NonZero)

re_m(s, p) ==
    Alt2(s, p, {"1"}, {"0", "1", "2"}) \cup Alt2(s, p, {"0"}, NonZero)
        \cup Alt1(s, p, NonZero)

re_Y(s, p) == IF MatchDigits(s, p, 4) # 0 THEN {p + 4} ELSE {}

\* the matches of the whole pattern, each <<end of d, end of m, end of Y>>
\* (the position after the group)
format_regex_match(s) ==
    {t \in (2..3) \X (4..6) \X (9..11) :
        /\ t[1] \in re_d(s, 1)
        /\ In(s, t[1], {"."})
        /\ t[2] \in re_m(s, t[1] + 1)
        /\ In(s, t[2], {"."})
        /\ t[3] \in re_Y(s, t[2] + 1)}

strptime(s) ==
    LET found == format_regex_match(s)
    IN  IF found = {}
        THEN Raise("ValueError", "time data does not match format")
        ELSE LET \* the alternatives are tried in order: two characters before one
                 t == CHOOSE u \in found :
                          \A w \in found : w[1] < u[1] \/ (w[1] = u[1] /\ w[2] <= u[2])
             IN  IF t[3] # Len(s) + 1
                 THEN Raise("ValueError", "unconverted data remains")
                 ELSE date(int(SubSeq(s, t[2] + 1, t[3] - 1)),
                           int(SubSeq(s, t[1] + 1, t[2] - 1)),
                           int(SubSeq(s, 1, t[1] - 1)))

(***************************************************************************)
(* class Birthday                                                          *)
(***************************************************************************)
Birthday_validate(value) == ~strptime(value).raised

Birthday(value) ==
    IF ~Birthday_validate(value)
    THEN Raise("ValueError", "Invalid date format. Use DD.MM.YYYY")
    ELSE Return(Field(value))

(***************************************************************************)
(* class Record                                                            *)
(***************************************************************************)
Record(name) == [name |-> Name(name), phones |-> <<>>, birthday |-> None]

\* the outcome of a method that may change self: self as the call leaves it
Done(self) == [raised |-> FALSE, self |-> self]
Fail(self, e) == [raised |-> TRUE, self |-> self, exc |-> e.exc, msg |-> e.msg]

Record_add_phone(self, phone_number) ==
    LET phone == Phone(phone_number)
    IN  IF phone.raised THEN Fail(self, phone)
        ELSE Done([self EXCEPT !.phones = Append(@, phone.ret)])

\* The Phone object found is named by its place in self.phones (0: None). No
\* two places hold the same object, since add_phone makes a new one each time.
Record_find_phone(self, phone_number) ==
    LET hits == {i \in 1..Len(self.phones) : self.phones[i].value = phone_number}
    IN  IF hits = {} THEN 0 ELSE CHOOSE i \in hits : \A j \in hits : i <= j

\* list.remove(x) for the object x at place i: Phone defines no __eq__, so the
\* first element equal to x is x itself
list_remove(l, i) == SubSeq(l, 1, i - 1) \o SubSeq(l, i + 1, Len(l))

Record_remove_phone(self, phone_number) ==
    LET phone == Record_find_phone(self, phone_number)
    IN  IF phone # 0
        THEN Done([self EXCEPT !.phones = list_remove(@, phone)])
        ELSE Fail(self, Raise("ValueError", "Phone number not found."))

\* edit_phone with the check of new_phone left to add_phone: old_phone is
\* gone by the time the new number is refused
Record_edit_phone_check_late(self, old_phone, new_phone) ==
    LET phone == Record_find_phone(self, old_phone)
    IN  IF phone # 0
        THEN LET removed == Record_remove_phone(self, old_phone)
             IN  IF removed.raised THEN removed
                 ELSE Record_add_phone(removed.self, new_phone)
        ELSE Fail(self, Raise("ValueError", "Old phone number not found."))

\* edit_phone writing the new number at the place of the old one
Record_edit_phone_in_place(self, old_phone, new_phone) ==
    IF ~Phone_validate(new_phone)
    THEN Fail(self, Raise("ValueError", "New phone number must be a string of 10 digits."))
    ELSE LET phone == Record_find_phone(self, old_phone)
         IN  IF phone # 0
             THEN Done([self EXCEPT !.phones[phone] = Field(new_phone)])
             ELSE Fail(self, Raise("ValueError", "Old phone number not found."))

Record_edit_phone(self, old_phone, new_phone) ==
    IF ~Phone_validate(new_phone)
    THEN Fail(self, Raise("ValueError", "New phone number must be a string of 10 digits."))
    ELSE LET phone == Record_find_phone(self, old_phone)
         IN  IF phone # 0
             THEN LET removed == Record_remove_phone(self, old_phone)
                  IN  IF removed.raised THEN removed
                      ELSE Record_add_phone(removed.self, new_phone)
             ELSE Fail(self, Raise("ValueError", "Old phone number not found."))

Record_add_birthday(self, birthday) ==
    LET b == Birthday(birthday)
    IN  IF b.raised THEN Fail(self, b)
        ELSE Done([self EXCEPT !.birthday = b.ret])

(***************************************************************************)
(* class AddressBook(UserDict): data is a dict, here its items in          *)
(* insertion order                                                         *)
(***************************************************************************)
Keys(data) == {data[i].key : i \in 1..Len(data)}

\* the place of key in data (0: no such key)
Place(data, key) ==
    IF key \in Keys(data) THEN CHOOSE i \in 1..Len(data) : data[i].key = key ELSE 0

\* data[key] = value: a new key goes last, a known key keeps its place
dict_setitem(data, key, value) ==
    IF Place(data, key) # 0
    THEN [data EXCEPT ![Place(data, key)].record = value]
    ELSE Append(data, [key |-> key, record |-> value])

\* book.get(name)
dict_get(data, key) ==
    IF Place(data, key) # 0 THEN data[Place(data, key)].record ELSE None

\* add_record storing every Record it is given, as a list would
AddressBook_add_record_append(self, record) ==
    Append(self, [key |-> record.name.value, record |-> record])

AddressBook_add_record(self, record) ==
    dict_setitem(self, record.name.value, record)

date_lt(a, b) ==
    \/ a.year < b.year
    \/ a.year = b.year /\ a.month < b.month
    \/ a.year = b.year /\ a.month = b.month /\ a.day < b.day

Window == 7

\* the loop of get_upcoming_birthdays from the i-th record on; an exception
\* ends it and loses upcoming_birthdays
RECURSIVE upcoming_from(_, _, _, _)
upcoming_from(data, i, now, upcoming_birthdays) ==
    IF i > Len(data) THEN Return(upcoming_birthdays)
    ELSE
    LET record == data[i].record
    IN  IF record.birthday = None
        THEN upcoming_from(data, i + 1, now, upcoming_birthdays)
        ELSE
        LET bday == strptime(record.birthday.value)
        IN  IF bday.raised THEN bday
            ELSE
            LET this_year == replace_year(bday.ret, now.year)
            IN  IF this_year.raised THEN this_year
                ELSE
                LET bday_this_year ==
                        IF date_lt(this_year.ret, now)
                        THEN replace_year(this_year.ret, now.year + 1)
                        ELSE this_year
                IN  IF bday_this_year.raised THEN bday_this_year
                    ELSE
                    LET delta == toordinal(bday_this_year.ret) - toordinal(now)
                        wd == weekday(bday_this_year.ret)
                        greeting_day ==
                            IF wd \in {5, 6}
                            THEN PlusDays(bday_this_year.ret, 7 - wd)
                            ELSE bday_this_year.ret
                    IN  IF 0 <= delta /\ delta < Window
                        THEN upcoming_from(data, i + 1, now,
                                 Append(upcoming_birthdays,
                                        [name |-> record.name.value,
                                         congratulate_on |-> strftime(greeting_day)]))
                        ELSE upcoming_from(data, i + 1, now, upcoming_birthdays)

AddressBook_get_upcoming_birthdays(self, now) == upcoming_from(self, 1, now, <<>>)

(***************************************************************************)
(* The command handlers. A handler's outcome is the book as it leaves it   *)
(* and what it returned or raised; input_error turns ValueError, KeyError  *)
(* and IndexError into the returned message.                               *)
(***************************************************************************)
Out(b, ret) == [book |-> b, raised |-> FALSE, ret |-> ret]
Exc(b, exc, msg) == [book |-> b, raised |-> TRUE, exc |-> exc, msg |-> msg]

input_error(out) ==
    IF ~out.raised THEN [book |-> out.book, raised |-> FALSE, err |-> FALSE, ret |-> out.ret]
    ELSE IF out.exc = "ValueError"
    THEN [book |-> out.book, raised |-> FALSE, err |-> TRUE, ret |-> out.msg]
    ELSE IF out.exc = "KeyError"
    THEN [book |-> out.book, raised |-> FALSE, err |-> TRUE, ret |-> "Contact not found."]
    ELSE IF out.exc = "IndexError"
    THEN [book |-> out.book, raised |-> FALSE, err |-> TRUE, ret |-> "Not enough arguments."]
    ELSE [book |-> out.book, raised |-> TRUE, err |-> TRUE, ret |-> out.msg]

\* the Record under name, which the handler holds by reference, is now r
Mutated(b, name, r) == [b EXCEPT ![Place(b, name)].record = r]

add_contact(args, b) ==
    IF Len(args) < 2
    THEN Exc(b, "ValueError", "not enough values to unpack (expected at least 2)")
    ELSE
    LET name == args[1]
        phone == args[2]
        found == dict_get(b, name)
        record == IF found = None THEN Record(name) ELSE found
        b1 == IF found = None THEN AddressBook_add_record(b, record) ELSE b
        message == IF found = None THEN "Contact added." ELSE "Contact updated."
    IN  IF phone # <<>>
        THEN LET added == Record_add_phone(record, phone)
             IN  IF added.raised
                 THEN Exc(Mutated(b1, name, added.self), added.exc, added.msg)
                 ELSE Out(Mutated(b1, name, added.self), message)
        ELSE Out(b1, message)

change_contact(args, b) ==
    IF Len(args) # 3
    THEN Exc(b, "ValueError", "wrong number of values to unpack (expected 3)")
    ELSE
    LET name == args[1]
        record == dict_get(b, name)
    IN  IF record = None THEN Exc(b, "ValueError", "Contact not found.")
        ELSE LET edited == Record_edit_phone(record, args[2], args[3])
             IN  IF edited.raised
                 THEN Exc(Mutated(b, name, edited.self), edited.exc, edited.msg)
                 ELSE Out(Mutated(b, name, edited.self), "Phone number updated.")

show_phone(args, b) ==
    IF Len(args) < 1 THEN Exc(b, "IndexError", "list index out of range")
    ELSE
    LET name == args[1]
        record == dict_get(b, name)
    IN  IF record # None
        THEN Out(b, <<"Phones for", name, [i \in 1..Len(record.phones) |->
                                             record.phones[i].value]>>)
        ELSE Exc(b, "KeyError", "")

\* str(record)
Record_str(self) ==
    <<"Name:", self.name.value,
      "Phones:", IF self.phones = <<>> THEN <<"No phones">>
                 ELSE [i \in 1..Len(self.phones) |-> self.phones[i].value],
      "Birthday:", IF self.birthday # None THEN self.birthday.value
                   ELSE "No birthday">>

all_contacts(args, b) == Out(b, [i \in 1..Len(b) |-> Record_str(b[i].record)])

add_birthday(args, b) ==
    IF Len(args) # 2
    THEN Exc(b, "ValueError", "wrong number of values to unpack (expected 2)")
    ELSE
    LET name == args[1]
        record == dict_get(b, name)
    IN  IF record = None THEN Exc(b, "ValueError", "Contact not found.")
        ELSE LET set == Record_add_birthday(record, args[2])
             IN  IF set.raised
                 THEN Exc(Mutated(b, name, set.self), set.exc, set.msg)
                 ELSE Out(Mutated(b, name, set.self), "Birthday added.")

show_birthday(args, b) ==
    IF Len(args) < 1 THEN Exc(b, "IndexError", "list index out of range")
    ELSE
    LET name == args[1]
        record == dict_get(b, name)
    IN  IF record # None
        THEN Out(b, <<name, "'s birthday:",
                      IF record.birthday # None THEN record.birthday.value
                      ELSE "No birthday added.">>)
        ELSE Exc(b, "KeyError", "")

birthdays(args, b, now) ==
    LET upcoming_birthdays == AddressBook_get_upcoming_birthdays(b, now)
    IN  IF upcoming_birthdays.raised
        THEN Exc(b, upcoming_birthdays.exc, upcoming_birthdays.msg)
        ELSE IF upcoming_birthdays.ret # <<>>
        THEN Out(b, [i \in 1..Len(upcoming_birthdays.ret) |->
                        <<upcoming_birthdays.ret[i].name, " - ",
                          upcoming_birthdays.ret[i].congratulate_on>>])
        ELSE Out(b, "No upcoming birthdays.")

(***************************************************************************)
(* pickle. The file holds a sequence of opcodes for pickle's stack machine:*)
(* STR pushes a str, NONE pushes None, GLOBAL pushes a class, NEWOBJ turns *)
(* the class on top into a new instance, EMPTY_DICT and EMPTY_LIST push a  *)
(* container, MARK pushes a mark, SETITEMS and APPENDS move what is above  *)
(* the mark into the dict or list below it, BUILD gives the instance its   *)
(* __dict__, STOP ends the pickle with its value on top.                   *)
(***************************************************************************)
Op(name) == [op |-> name]
OpArg(name, arg) == [op |-> name, arg |-> arg]

\* an instance of cls with the attributes attrs (each <<name, opcodes of value>>)
RECURSIVE save_attrs(_)
save_attrs(attrs) ==
    IF attrs = <<>> THEN <<>>
    ELSE <<OpArg("STR", Head(attrs)[1])>> \o Head(attrs)[2] \o save_attrs(Tail(attrs))

save_obj(cls, attrs) ==
    <<OpArg("GLOBAL", cls), Op("NEWOBJ"), Op("EMPTY_DICT"), Op("MARK")>>
        \o save_attrs(attrs) \o <<Op("SETITEMS"), Op("BUILD")>>

save_field(cls, f) == save_obj(cls, << <<"value", <<OpArg("STR", f.value)>> >> >>)

RECURSIVE save_phones(_)
save_phones(phones) ==
    IF phones = <<>> THEN <<>>
    ELSE save_field("Phone", Head(phones)) \o save_phones(Tail(phones))

save_record(r) ==
    save_obj("Record",
        << <<"name", save_field("Name", r.name)>>,
           <<"phones", <<Op("EMPTY_LIST"), Op("MARK")>> \o save_phones(r.phones)
                           \o <<Op("APPENDS")>> >>,
           <<"birthday", IF r.birthday = None THEN <<Op("NONE")>>
                         ELSE save_field("Birthday", r.birthday)>> >>)

RECURSIVE save_items(_)
save_items(data) ==
    IF data = <<>> THEN <<>>
    ELSE <<OpArg("STR", Head(data).key)>> \o save_record(Head(data).record)
             \o save_items(Tail(data))

\* pickle.dumps(book)
pickle_dumps(b) ==
    <<Op("PROTO")>>
        \o save_obj("AddressBook",
               << <<"data", <<Op("EMPTY_DICT"), Op("MARK")>> \o save_items(b)
                                \o <<Op("SETITEMS")>> >> >>)
        \o <<Op("STOP")>>

\* the place of the topmost mark (0: none)
TopMark(stack) ==
    LET marks == {i \in 1..Len(stack) : stack[i].k = "mark"}
    IN  IF marks = {} THEN 0 ELSE CHOOSE i \in marks : \A j \in marks : j <= i

\* d[key] = value for each key and value of pairs, in turn
RECURSIVE setitems(_, _)
setitems(items, pairs) ==
    IF pairs = <<>> THEN items
    ELSE LET at == {i \in 1..Len(items) : items[i][1] = pairs[1]}
         IN  setitems(IF at = {} THEN Append(items, <<pairs[1], pairs[2]>>)
                      ELSE [items EXCEPT ![CHOOSE i \in at : TRUE][2] = pairs[2]],
                      SubSeq(pairs, 3, Len(pairs)))

\* the unpickler between two opcodes: its stack, then the value STOP returned or
\* the exception raised
Running(stack) == [at |-> "run", stack |-> stack]
Stopped(value) == [at |-> "stop", value |-> value]
Unpickling == [at |-> "error", exc |-> "UnpicklingError"]

\* the unpickler reads the opcode o
load_op(m, o) ==
    IF m.at # "run" THEN m
    ELSE
    LET stack == m.stack
        n == Len(stack)
        mark == TopMark(stack)
    IN  CASE o.op = "PROTO" -> m
          [] o.op = "STR" -> Running(Append(stack, [k |-> "str", v |-> o.arg]))
          [] o.op = "NONE" -> Running(Append(stack, [k |-> "none"]))
          [] o.op = "GLOBAL" -> Running(Append(stack, [k |-> "class", cls |-> o.arg]))
          [] o.op = "EMPTY_DICT" -> Running(Append(stack, [k |-> "dict", items |-> <<>>]))
          [] o.op = "EMPTY_LIST" -> Running(Append(stack, [k |-> "list", items |-> <<>>]))
          [] o.op = "MARK" -> Running(Append(stack, [k |-> "mark"]))
          [] o.op = "NEWOBJ" ->
                IF n >= 1 /\ stack[n].k = "class"
                THEN Running([stack EXCEPT ![n] = [k |-> "obj", cls |-> stack[n].cls,
                                                   state |-> <<>>]])
                ELSE Unpickling
          [] o.op = "SETITEMS" ->
                IF mark >= 2 /\ stack[mark - 1].k = "dict" /\ (n - mark) % 2 = 0
                THEN Running(Append(SubSeq(stack, 1, mark - 2),
                                    [k |-> "dict",
                                     items |-> setitems(stack[mark - 1].items,
                                                        SubSeq(stack, mark + 1, n))]))
                ELSE Unpickling
          [] o.op = "APPENDS" ->
                IF mark >= 2 /\ stack[mark - 1].k = "list"
                THEN Running(Append(SubSeq(stack, 1, mark - 2),
                                    [k |-> "list",
                                     items |-> stack[mark - 1].items
                                                   \o SubSeq(stack, mark + 1, n)]))
                ELSE Unpickling
          [] o.op = "BUILD" ->
                IF n >= 2 /\ stack[n].k = "dict" /\ stack[n - 1].k = "obj"
                THEN Running(Append(SubSeq(stack, 1, n - 2),
                                    [stack[n - 1] EXCEPT !.state = stack[n].items]))
                ELSE Unpickling
          [] o.op = "STOP" -> IF n >= 1 THEN Stopped(stack[n]) ELSE Unpickling
          [] OTHER -> Unpickling

\* the unpickler reads the opcodes lo..hi in turn, until STOP or an error
RECURSIVE load_range(_, _, _, _)
load_range(m, ops, lo, hi) ==
    IF lo > hi THEN m
    ELSE IF lo = hi THEN load_op(m, ops[lo])
    ELSE LET mid == (lo + hi) \div 2
             first == load_range(m, ops, lo, mid)
         IN  IF first.at # "run" THEN first
             ELSE load_range(first, ops, mid + 1, hi)

\* pickle.loads(ops): the value of the first pickle in ops
pickle_loads(ops) ==
    LET m == load_range(Running(<<>>), ops, 1, Len(ops))
    IN  IF m.at = "stop" THEN Return(m.value)
        ELSE IF m.at = "error" THEN Raise(m.exc, "invalid pickle data")
        ELSE Raise("EOFError", "Ran out of input")

\* obj.<name> of an unpickled instance
Attr(obj, name) ==
    LET at == CHOOSE i \in 1..Len(obj.state) : obj.state[i][1].v = name
    IN  obj.state[at][2]

\* the unpickled instances as the rest of the program reads them
AsField(obj) == Field(Attr(obj, "value").v)

AsRecord(obj) ==
    [name |-> AsField(Attr(obj, "name")),
     phones |-> [i \in 1..Len(Attr(obj, "phones").items) |->
                    AsField(Attr(obj, "phones").items[i])],
     birthday |-> IF Attr(obj, "birthday").k = "none" THEN None
                  ELSE AsField(Attr(obj, "birthday"))]

AsBook(obj) ==
    [i \in 1..Len(Attr(obj, "data").items) |->
        [key |-> Attr(obj, "data").items[i][1].v,
         record |-> AsRecord(Attr(obj, "data").items[i][2])]]

(***************************************************************************)
(* save_data and load_data on the file: it exists or not, can be opened    *)
(* (mode "rw") or not (mode "")                                            *)
(***************************************************************************)
NoFile == [exists |-> FALSE]

\* open(filename, "ab"): what is written goes after what the file holds
save_data_append(b, f) ==
    IF f.exists /\ f.mode # "rw"
    THEN [file |-> f, raised |-> TRUE, exc |-> "PermissionError"]
    ELSE [file |-> [exists |-> TRUE, mode |-> "rw",
                    bytes |-> (IF f.exists THEN f.bytes ELSE <<>>) \o pickle_dumps(b)],
          raised |-> FALSE]

\* open(filename, "wb") makes the file or empties it
save_data(b, f) ==
    IF f.exists /\ f.mode # "rw"
    THEN [file |-> f, raised |-> TRUE, exc |-> "PermissionError"]
    ELSE [file |-> [exists |-> TRUE, mode |-> "rw", bytes |-> pickle_dumps(b)],
          raised |-> FALSE]

AddressBook == <<>>

\* load_data with `except Exception`
load_data_any_error(f) ==
    IF ~f.exists THEN Return(AddressBook)
    ELSE IF f.mode # "rw" THEN Return(AddressBook)
    ELSE LET loaded == pickle_loads(f.bytes)
         IN  IF loaded.raised THEN Return(AddressBook) ELSE Return(AsBook(loaded.ret))

load_data(f) ==
    IF ~f.exists THEN Return(AddressBook)
    ELSE IF f.mode # "rw" THEN Raise("PermissionError", "Permission denied")
    ELSE LET loaded == pickle_loads(f.bytes)
         IN  IF loaded.raised THEN loaded ELSE Return(AsBook(loaded.ret))

(***************************************************************************)
(* Inputs                                                                  *)
(***************************************************************************)
MaxPad == 2

P1 == <<"0", "1", "2", "3", "4", "5", "6", "7", "8", "9">>
P2 == <<"5", "5", "5", "0", "0", "0", "1", "1", "1", "1">>
P1Newline == P1 \o <<"\n">>
ShortPhone == <<"1", "2", "3">>

OddChars == {"\n", " ", "+", "-", ".", "a", "u0663"}

\* the strings of at most k characters over S
StringsOver(S, k) == UNION {[1..n -> S] : n \in 0..k}

Prefixes(b) == {SubSeq(b, 1, n) : n \in 0..Len(b)}

Subst(b, S) == {[b EXCEPT ![i] = c] : i \in 1..Len(b), c \in S}

\* ten digits, fewer, ten with one character replaced or one put in front,
\* each followed by at most MaxPad more characters
PhoneInputs ==
    {x \o pad :
        x \in Prefixes(P1) \cup Subst(P1, OddChars) \cup {P2}
                \cup {<<c>> \o P1 : c \in OddChars},
        pad \in StringsOver({"\n", "0"}, MaxPad)}

DayTexts ==
    {<<"0", "1">>, <<"1">>, <<"2", "8">>, <<"2", "9">>, <<"3", "0">>, <<"3", "1">>,
     <<"0", "0">>, <<"3", "2">>, <<" ", "1">>, <<"0", "0", "1">>, <<"1", "u0663">>,
     <<"0">>, <<>>}

MonthTexts ==
    {<<"0", "1">>, <<"1">>, <<"0", "2">>, <<"2">>, <<"0", "4">>, <<"1", "2">>,
     <<"1", "3">>, <<"0", "0">>, <<" ", "1">>, <<"0", "u0663">>}

YearTexts ==
    {<<"2", "0", "2", "0">>, <<"2", "0", "2", "3">>, <<"2", "0", "2", "4">>,
     <<"1", "9", "0", "0">>, <<"2", "0", "0", "0">>, <<"0", "0", "0", "0">>,
     <<"0", "0", "0", "1">>, <<"2", "0">>, <<"2", "0", "2", "0", "0">>,
     <<"2", "0", "2", "u0663">>}

BirthdayInputs ==
    {d \o <<sep>> \o m \o <<sep>> \o y \o pad :
        d \in DayTexts, m \in MonthTexts, y \in YearTexts, sep \in {".", "-"},
        pad \in StringsOver({"\n"}, MaxPad - 1)}

Alice == <<"A", "l", "i", "c", "e">>
Bob == <<"B", "o", "b">>
Names == {Alice, Bob}

Day0 == [year |-> 2022, month |-> 12, day |-> 26]

(***************************************************************************)
(* The validators: a caller holds one input string and passes it on        *)
(***************************************************************************)
Idle ==
    /\ book = <<>>
    /\ rec = Record(Alice)
    /\ file = NoFile
    /\ saved = None
    /\ today = Day0
    /\ pre = <<>>

PhoneInit == Idle /\ last \in {[op |-> "input", value |-> v] : v \in PhoneInputs}

CallPhoneValidate ==
    /\ last.op = "input"
    /\ last' = [op |-> "Phone.validate", value |-> last.value,
                ret |-> Phone_validate(last.value)]
    /\ UNCHANGED <<book, rec, file, today, saved, pre>>

CallPhone ==
    /\ last.op = "input"
    /\ last' = [op |-> "Phone", value |-> last.value,
                raised |-> Phone(last.value).raised]
    /\ UNCHANGED <<book, rec, file, today, saved, pre>>

CallAddPhoneFresh ==
    /\ last.op = "input"
    /\ LET out == Record_add_phone(rec, last.value)
       IN  /\ last' = [op |-> "Record.add_phone", value |-> last.value,
                       raised |-> out.raised]
           /\ rec' = out.self
    /\ UNCHANGED <<book, file, today, saved, pre>>

NextPhone == CallPhoneValidate \/ CallPhone \/ CallAddPhoneFresh

SpecPhone == PhoneInit /\ [][NextPhone]_vars

BirthdayInit == Idle /\ last \in {[op |-> "input", value |-> v] : v \in BirthdayInputs}

CallBirthdayValidate ==
    /\ last.op = "input"
    /\ last' = [op |-> "Birthday.validate", value |-> last.value,
                ret |-> Birthday_validate(last.value)]
    /\ UNCHANGED <<book, rec, file, today, saved, pre>>

CallBirthday ==
    /\ last.op = "input"
    /\ last' = [op |-> "Birthday", value |-> last.value,
                raised |-> Birthday(last.value).raised]
    /\ UNCHANGED <<book, rec, file, today, saved, pre>>

CallAddBirthdayFresh ==
    /\ last.op = "input"
    /\ LET out == Record_add_birthday(rec, last.value)
       IN  /\ last' = [op |-> "Record.add_birthday", value |-> last.value,
                       raised |-> out.raised]
           /\ rec' = out.self
    /\ UNCHANGED <<book, file, today, saved, pre>>

NextBirthday == CallBirthdayValidate \/ CallBirthday \/ CallAddBirthdayFresh

SpecBirthday == BirthdayInit /\ [][NextBirthday]_vars

(***************************************************************************)
(* A caller holding one Record and calling its methods                     *)
(***************************************************************************)
MaxPhones == 3

PhoneArgs == {P1, P2, P1Newline, ShortPhone}

B_0101 == <<"0", "1", ".", "0", "1", ".", "1", "9", "9", "0">>
B_3112 == <<"3", "1", ".", "1", "2", ".", "1", "9", "8", "5">>
B_2812 == <<"2", "8", ".", "1", "2", ".", "1", "9", "9", "5">>
B_2902 == <<"2", "9", ".", "0", "2", ".", "2", "0", "0", "0">>
B_13 == <<"1", ".", "3", ".", "2", "0", "0", "1">>
B_3102 == <<"3", "1", ".", "0", "2", ".", "2", "0", "2", "4">>

BirthdayArgs == {B_0101, B_2902, B_13, B_3102}

RecordInit ==
    /\ book = <<>>
    /\ rec \in {Record(n) : n \in Names}
    /\ file = NoFile
    /\ saved = None
    /\ today = Day0
    /\ pre = rec
    /\ last = [op |-> "Record"]

\* the call returns or raises: rec is what the method left of it
RecordCall(op, args, out) ==
    /\ rec' = out.self
    /\ pre' = rec
    /\ last' = [op |-> op, args |-> args, raised |-> out.raised]
    /\ UNCHANGED <<book, file, today, saved>>

CallAddPhone ==
    /\ Len(rec.phones) < MaxPhones
    /\ \E p \in PhoneArgs :
          RecordCall("Record.add_phone", <<p>>, Record_add_phone(rec, p))

CallRemovePhone ==
    \E p \in PhoneArgs :
        RecordCall("Record.remove_phone", <<p>>, Record_remove_phone(rec, p))

CallEditPhone ==
    \E old \in PhoneArgs, new \in PhoneArgs :
        RecordCall("Record.edit_phone", <<old, new>>, Record_edit_phone(rec, old, new))

CallAddBirthday ==
    \E b \in BirthdayArgs :
        RecordCall("Record.add_birthday", <<b>>, Record_add_birthday(rec, b))

NextRecord == CallAddPhone \/ CallRemovePhone \/ CallEditPhone \/ CallAddBirthday

SpecRecord == RecordInit /\ [][NextRecord]_vars

(***************************************************************************)
(* A session: the book of main(), the handlers called on it in any order,  *)
(* and add_record called with Records built through the Record methods     *)
(***************************************************************************)
MaxBookPhones == 2

\* Record(name), then add_phone for each of phones, then add_birthday unless
\* birthday is ""
RECURSIVE WithPhones(_, _)
WithPhones(r, phones) ==
    IF phones = <<>> THEN r
    ELSE WithPhones(Record_add_phone(r, Head(phones)).self, Tail(phones))

Built(name, phones, birthday) ==
    LET r == WithPhones(Record(name), phones)
    IN  IF birthday = <<>> THEN r ELSE Record_add_birthday(r, birthday).self

BookRecords ==
    {Built(n, ps, b) : n \in Names, ps \in {<<>>, <<P2>>, <<P2, P1>>},
                       b \in {<<>>, B_0101}}

AddArgs ==
    {<<n, p>> : n \in Names, p \in {P1, P2, ShortPhone}}
        \cup {<<n>> : n \in Names} \cup {<<Alice, P1, P2>>}

ChangeArgs ==
    {<<n, old, new>> : n \in Names, old \in {P1, P2}, new \in {P1, P2, ShortPhone}}
        \cup {<<Alice, P1>>}

BirthdayCmdArgs ==
    {<<n, b>> : n \in Names, b \in {B_0101, B_3102}} \cup {<<Alice>>}

ShowArgs == {<<n>> : n \in Names} \cup {<<>>}

Init ==
    /\ book = <<>>
    /\ rec = Record(Alice)
    /\ file = NoFile
    /\ saved = None
    /\ today = Day0
    /\ pre = <<>>
    /\ last = [op |-> "AddressBook"]

\* book.add_record(record)
AddRecordFrom(S) ==
    /\ \E record \in S :
          /\ book' = AddressBook_add_record(book, record)
          /\ last' = [op |-> "add_record", record |-> record]
    /\ pre' = book
    /\ UNCHANGED <<rec, file, today, saved>>

AddRecord == AddRecordFrom(BookRecords)

\* print(handler(args, book))
Command(op, args, out) ==
    /\ book' = out.book
    /\ pre' = book
    /\ last' = [op |-> op, args |-> args, raised |-> out.raised, err |-> out.err,
                ret |-> out.ret]
    /\ UNCHANGED <<rec, file, today, saved>>

CmdAddContact ==
    \E args \in AddArgs :
        /\ Len(args) >= 1 /\ dict_get(book, args[1]) # None
              => Len(dict_get(book, args[1]).phones) < MaxBookPhones
        /\ Command("add", args, input_error(add_contact(args, book)))

CmdChangeContact ==
    \E args \in ChangeArgs :
        Command("change", args, input_error(change_contact(args, book)))

CmdShowPhone ==
    \E args \in ShowArgs :
        Command("phone", args, input_error(show_phone(args, book)))

CmdAllContacts == Command("all", <<>>, input_error(all_contacts(<<>>, book)))

CmdAddBirthday ==
    \E args \in BirthdayCmdArgs :
        Command("add-birthday", args, input_error(add_birthday(args, book)))

CmdShowBirthday ==
    \E args \in ShowArgs :
        Command("show-birthday", args, input_error(show_birthday(args, book)))

CmdBirthdays == Command("birthdays", <<>>, input_error(birthdays(<<>>, book, today)))

Next ==
    \/ AddRecord
    \/ CmdAddContact
    \/ CmdChangeContact
    \/ CmdShowPhone
    \/ CmdAllContacts
    \/ CmdAddBirthday
    \/ CmdShowBirthday
    \/ CmdBirthdays

Spec == Init /\ [][Next]_vars

(***************************************************************************)
(* The upcoming birthdays, asked for on each day of two runs of days: the  *)
(* turn of the year 2022/23 and the end of February 2024                   *)
(***************************************************************************)
MaxDays == 7

Day1 == [year |-> 2024, month |-> 2, day |-> 23]
StartDays == {Day0, Day1}

BirthdayRecords ==
    {Built(n, <<>>, b) : n \in Names,
                         b \in {<<>>, B_0101, B_3112, B_2812, B_2902, B_13}}

UpcomingInit ==
    /\ book = <<>>
    /\ rec = Record(Alice)
    /\ file = NoFile
    /\ saved = None
    /\ today \in StartDays
    /\ pre = <<>>
    /\ last = [op |-> "AddressBook"]

AddBirthdayRecord == AddRecordFrom(BirthdayRecords)

\* midnight passes
Tick ==
    /\ \E s \in StartDays :
          0 <= toordinal(today) - toordinal(s) /\ toordinal(today) - toordinal(s) < MaxDays
    /\ today' = PlusDays(today, 1)
    /\ last' = [op |-> "tick"]
    /\ pre' = book
    /\ UNCHANGED <<book, rec, file, saved>>

CallGetUpcomingBirthdays ==
    /\ LET out == AddressBook_get_upcoming_birthdays(book, today)
       IN  last' = [op |-> "get_upcoming_birthdays", raised |-> out.raised,
                    ret |-> IF out.raised THEN <<>> ELSE out.ret]
    /\ pre' = book
    /\ UNCHANGED <<book, rec, file, today, saved>>

NextUpcoming == AddBirthdayRecord \/ Tick \/ CallGetUpcomingBirthdays \/ CmdBirthdays

SpecUpcoming == UpcomingInit /\ [][NextUpcoming]_vars

(***************************************************************************)
(* main() over several runs: the book is loaded, Records are added, the    *)
(* book is saved; between the runs the file may be removed, cut short,     *)
(* damaged or made unreadable                                              *)
(***************************************************************************)
StoreRecords ==
    {Built(n, <<>>, <<>>) : n \in Names} \cup {Built(n, <<P1, P2>>, B_0101) : n \in Names}
        \cup {Built(Alice, <<P2>>, <<>>)}

StoreInit ==
    /\ book = AddressBook
    /\ rec = Record(Alice)
    /\ file = NoFile
    /\ saved = None
    /\ today = Day0
    /\ pre = [book |-> book, file |-> file]
    /\ last = [op |-> "AddressBook"]

StoreAddRecord ==
    /\ \E record \in StoreRecords :
          /\ book' = AddressBook_add_record(book, record)
          /\ last' = [op |-> "add_record", record |-> record]
    /\ pre' = [book |-> book, file |-> file]
    /\ UNCHANGED <<rec, file, today, saved>>

\* save_data(book)
SaveData ==
    LET out == save_data(book, file)
    IN  /\ file' = out.file
        /\ saved' = IF out.raised THEN saved ELSE [book |-> book]
        /\ last' = [op |-> "save_data", raised |-> out.raised]
        /\ pre' = [book |-> book, file |-> file]
        /\ UNCHANGED <<book, rec, today>>

\* book = load_data()
LoadData ==
    LET out == load_data(file)
    IN  /\ book' = IF out.raised THEN book ELSE out.ret
        /\ last' = [op |-> "load_data", raised |-> out.raised]
        /\ pre' = [book |-> book, file |-> file]
        /\ UNCHANGED <<rec, file, today, saved>>

Outside(f) ==
    /\ file' = f
    /\ last' = [op |-> "outside"]
    /\ pre' = [book |-> book, file |-> file]
    /\ UNCHANGED <<book, rec, today, saved>>

RemoveFile == file.exists /\ Outside(NoFile)

\* the file is as save_data wrote it
AsWritten == file.exists /\ saved # None /\ file.bytes = pickle_dumps(saved.book)

\* the file loses its end: nothing, one opcode, half or all but the last are left
TruncateFile ==
    /\ AsWritten
    /\ \E n \in {0, 1, Len(file.bytes) \div 2, Len(file.bytes) - 1} :
          Outside([file EXCEPT !.bytes = SubSeq(@, 1, n)])

\* one opcode of the file becomes one pickle does not know
DamageFile ==
    /\ AsWritten
    /\ \E i \in {1, Len(file.bytes) \div 2, Len(file.bytes)} :
          Outside([file EXCEPT !.bytes[i] = Op("?")])

\* chmod 000 and back
ChmodFile ==
    /\ file.exists
    /\ Outside([file EXCEPT !.mode = IF @ = "rw" THEN "" ELSE "rw"])

NextStore ==
    \/ StoreAddRecord
    \/ SaveData
    \/ LoadData
    \/ RemoveFile
    \/ TruncateFile
    \/ DamageFile
    \/ ChmodFile

SpecStore == StoreInit /\ [][NextStore]_vars

(***************************************************************************)
(* Properties                                                              *)
(***************************************************************************)
Values(phones) == {phones[i].value : i \in 1..Len(phones)}

RecordOps ==
    {"Record.add_phone", "Record.remove_phone", "Record.edit_phone",
     "Record.add_birthday"}

\* the argument is one the call must refuse: a number or date the validator
\* rejects, or a number the Record does not hold
Refusable ==
    CASE last.op = "Record.add_phone" -> ~Phone_validate(last.args[1])
      [] last.op = "Record.remove_phone" -> last.args[1] \notin Values(pre.phones)
      [] last.op = "Record.edit_phone" ->
            ~Phone_validate(last.args[2]) \/ last.args[1] \notin Values(pre.phones)
      [] last.op = "Record.add_birthday" -> ~Birthday_validate(last.args[1])
      [] OTHER -> FALSE

TenAsciiDigits(s) == Len(s) = 10 /\ \A i \in 1..Len(s) : s[i] \in AsciiDigits

\* C3: Phone.validate, Phone(...) and Record.add_phone accept a string exactly
\* when it is 10 characters long and each is an ASCII digit 0-9.
C3_PhoneAcceptedIffTenAsciiDigits ==
    /\ last.op = "Phone.validate" => (last.ret <=> TenAsciiDigits(last.value))
    /\ last.op \in {"Phone", "Record.add_phone"}
          => (~last.raised <=> TenAsciiDigits(last.value))

\* DD.MM.YYYY: two, two and four ASCII digits, of a date the calendar has
IsDDMMYYYY(s) ==
    /\ Len(s) = 10
    /\ s[3] = "." /\ s[6] = "."
    /\ \A i \in {1, 2, 4, 5, 7, 8, 9, 10} : s[i] \in AsciiDigits
    /\ LET d == int(SubSeq(s, 1, 2))
           m == int(SubSeq(s, 4, 5))
           y == int(SubSeq(s, 7, 10))
       IN  y >= 1 /\ m \in 1..12 /\ d >= 1 /\ d <= DaysInMonth(y, m)

\* C4: Birthday.validate, Birthday(...) and Record.add_birthday accept a string
\* exactly when it is DD.MM.YYYY (2, 2 and 4 digits) and names an existing date.
C4_BirthdayAcceptedIffDDMMYYYY ==
    /\ last.op = "Birthday.validate" => (last.ret <=> IsDDMMYYYY(last.value))
    /\ last.op \in {"Birthday", "Record.add_birthday"}
          => (~last.raised <=> IsDDMMYYYY(last.value))

\* C10: a successful edit_phone(old, new) does what remove_phone(old) followed
\* by add_phone(new) does: the first old is taken out, the others keep their
\* order, new is put at the end; the length, the name and the birthday stay.
C10_EditIsRemoveThenAppend ==
    (last.op = "Record.edit_phone" /\ ~last.raised) =>
        LET old == last.args[1]
            new == last.args[2]
            n == Len(pre.phones)
        IN  /\ \E i \in 1..n :
                  /\ pre.phones[i].value = old
                  /\ \A j \in 1..(i - 1) : pre.phones[j].value # old
                  /\ rec.phones = [k \in 1..n |->
                                      IF k < i THEN pre.phones[k]
                                      ELSE IF k < n THEN pre.phones[k + 1]
                                      ELSE Field(new)]
            /\ Len(rec.phones) = n
            /\ rec.name = pre.name /\ rec.birthday = pre.birthday
            /\ rec = Record_add_phone(Record_remove_phone(pre, old).self, new).self

\* a successful edit of a number held twice, with another number between
C10_Witness ==
    /\ last.op = "Record.edit_phone" /\ ~last.raised
    /\ Len(pre.phones) = 3
    /\ pre.phones[1].value = last.args[1]
    /\ pre.phones[2].value # last.args[1]
    /\ pre.phones[3].value = last.args[1]
    /\ last.args[2] # last.args[1]
    /\ pre.birthday # None

NoDuplicateKeys(data) ==
    \A i \in 1..Len(data) : \A j \in 1..Len(data) : data[i].key = data[j].key => i = j

\* C7: the book holds at most one entry per name, each under the name of its
\* Record; add_record leaves under the Record's name exactly the Record it was
\* given (nothing of an earlier Record of that name) and leaves the entries
\* under other names as they were.
C7_OneEntryPerName ==
    /\ NoDuplicateKeys(book)
    /\ \A i \in 1..Len(book) : book[i].key = book[i].record.name.value
    /\ last.op = "add_record" =>
          LET name == last.record.name.value
          IN  /\ \E i \in 1..Len(book) :
                    book[i].key = name /\ book[i].record = last.record
              /\ Cardinality({i \in 1..Len(book) : book[i].key = name}) = 1
              /\ \A i \in 1..Len(pre) :
                    pre[i].key # name => \E j \in 1..Len(book) : book[j] = pre[i]
              /\ Keys(book) = Keys(pre) \cup {name}

\* add_record of a Record whose name is taken by a Record with other phones
\* and another birthday, in a book of two names
C7_Witness ==
    /\ last.op = "add_record"
    /\ Len(pre) = 2
    /\ \E i \in 1..Len(pre) :
          /\ pre[i].key = last.record.name.value
          /\ pre[i].record.phones # <<>>
          /\ last.record.phones # <<>>
          /\ pre[i].record.phones # last.record.phones
          /\ pre[i].record.birthday # last.record.birthday

Commands == {"add", "change", "phone", "all", "add-birthday", "show-birthday", "birthdays"}

\* C9: a command that returns an error message leaves the book as it was: the
\* same names, and the same phones and birthday under each.
C9_FailedCommandLeavesBook ==
    (last.op \in Commands /\ last.err) => book = pre

(***************************************************************************)
(* The upcoming birthdays as the week ahead defines them                   *)
(***************************************************************************)
IsLeapDay(value) == strptime(value).ret.month = 2 /\ strptime(value).ret.day = 29

\* the month and day of the birthday in year y
Placed(value, y) ==
    [year |-> y, month |-> strptime(value).ret.month, day |-> strptime(value).ret.day]

Exists(d) == d.day <= DaysInMonth(d.year, d.month)

\* the next occurrence: this year's, or next year's once this year's has passed
Occurrence(value, now) ==
    IF date_lt(Placed(value, now.year), now) THEN Placed(value, now.year + 1)
    ELSE Placed(value, now.year)

\* the occurrence itself on Monday to Friday, the Monday after it on a weekend
CongratulateOn(d) ==
    CASE weekday(d) = 5 -> PlusDays(d, 2)
      [] weekday(d) = 6 -> PlusDays(d, 1)
      [] OTHER -> d

Due(value, now) ==
    LET delta == toordinal(Occurrence(value, now)) - toordinal(now)
    IN  0 <= delta /\ delta < 7

NotLeapDay(value) == ~IsLeapDay(value)

\* the entries of the records from the i-th on, those of 29.02 only if leapDays
RECURSIVE ExpectedFrom(_, _, _, _)
ExpectedFrom(data, i, now, leapDays) ==
    IF i > Len(data) THEN <<>>
    ELSE LET r == data[i].record
         IN  (IF r.birthday # None /\ (leapDays \/ NotLeapDay(r.birthday.value))
                    /\ Due(r.birthday.value, now)
              THEN <<[name |-> r.name.value,
                      congratulate_on |->
                          strftime(CongratulateOn(Occurrence(r.birthday.value, now)))]>>
              ELSE <<>>)
             \o ExpectedFrom(data, i + 1, now, leapDays)

\* the entries returned for the Records whose birthday is not 29.02
OfOtherDays(ret) ==
    LET Kept(e) == \E i \in 1..Len(book) :
                       /\ book[i].key = e.name
                       /\ book[i].record.birthday # None
                       /\ NotLeapDay(book[i].record.birthday.value)
    IN  SelectSeq(ret, Kept)

\* C1: get_upcoming_birthdays returns, for every book and every today, in the
\* book's order, one entry for each Record whose birthday next occurs 0 to 6
\* days from today and none for another Record; the date is the occurrence, or
\* the Monday after it when it falls on a weekend, so never a Saturday or Sunday.
C1_UpcomingIsTheWeekAhead ==
    last.op = "get_upcoming_birthdays" =>
        /\ ~last.raised
        /\ OfOtherDays(last.ret) = ExpectedFrom(book, 1, today, FALSE)
        /\ \A i \in 1..Len(last.ret) :
              weekday(strptime(last.ret[i].congratulate_on).ret) \notin {5, 6}

\* C8: get_upcoming_birthdays does not fail on validated birthdays, whatever
\* today is: a birthday of 29.02 is handled when its year has no such day, and
\* the entries of the other Records are returned; nor does the birthdays
\* command answer with an error message.
C8_UpcomingNeverFails ==
    /\ last.op = "get_upcoming_birthdays" =>
          /\ ~last.raised
          /\ \A i \in 1..Len(book) :
                LET b == book[i].record.birthday
                IN  (b # None /\ NotLeapDay(b.value) /\ Due(b.value, today))
                        => \E k \in 1..Len(last.ret) : last.ret[k].name = book[i].key
    /\ last.op = "birthdays" => ~last.err

\* What get_upcoming_birthdays does: it raises exactly when a year in which it
\* places some Record's 29.02 has no such day, and returns the week ahead of
\* all the Records otherwise.
UpcomingWhereTheDayExists ==
    last.op = "get_upcoming_birthdays" =>
        LET Fails(value) ==
                \/ ~Exists(Placed(value, today.year))
                \/ /\ date_lt(Placed(value, today.year), today)
                   /\ ~Exists(Placed(value, today.year + 1))
        IN  /\ last.raised <=>
                  \E i \in 1..Len(book) :
                      /\ book[i].record.birthday # None
                      /\ Fails(book[i].record.birthday.value)
            /\ ~last.raised => last.ret = ExpectedFrom(book, 1, today, TRUE)

\* C5: load_data after save_data gives the saved book back: the same names in
\* the same order and, under each, the same phones and the same birthday (or
\* none); save_data replaces what the file held, so a load gives the last save.
C5_SaveLoadRoundTrip ==
    /\ (last.op = "save_data" /\ ~last.raised)
          => /\ book = pre.book
             /\ load_data(file) = Return(book)
    /\ (last.op = "load_data" /\ ~last.raised /\ pre.file.exists)
          => saved # None /\ book = saved.book

\* a load that brings back a saved book of two Records, one with two phones and
\* a birthday and one with neither, in place of another book in memory
C5_Witness ==
    /\ last.op = "load_data" /\ ~last.raised /\ pre.file.exists
    /\ Len(book) = 2
    /\ book[1].key = Bob
    /\ \E i \in 1..2 : Len(book[i].record.phones) = 2 /\ book[i].record.birthday # None
    /\ \E i \in 1..2 : book[i].record.phones = <<>> /\ book[i].record.birthday = None
    /\ pre.book # <<>> /\ pre.book # book

\* C6: load_data returns a fresh empty book when the file does not exist; a
\* file that exists but cannot be opened or does not hold what save_data wrote
\* makes it raise, and the caller gets no book from it.
C6_OnlyMissingFileIsTolerated ==
    last.op = "load_data" =>
        /\ ~pre.file.exists => (~last.raised /\ book = <<>>)
        /\ (/\ pre.file.exists
            /\ \/ pre.file.mode # "rw"
               \/ saved = None
               \/ pre.file.bytes # pickle_dumps(saved.book))
              => (last.raised /\ book = pre.book)

\* a load after the saved file was removed, with two Records in memory
C6_Witness ==
    /\ last.op = "load_data"
    /\ ~pre.file.exists
    /\ saved # None
    /\ Len(pre.book) = 2
    /\ book = <<>>

====
